---- MODULE Spec2Model ----
(***************************************************************************)
(* Tuple<N> of rt-core/src/tuple.rs: a fixed-length array of f64 with      *)
(* elementwise arithmetic, scalar scaling, negation, asserted indexing and *)
(* a tolerance comparison.                                                 *)
(*                                                                         *)
(* The scalars are IEEE-754 binary64 values, modelled bit-exactly under    *)
(* round-to-nearest-even.  A finite value is sign * m * 2^e with the       *)
(* significand m held as a little-endian sequence of 15-bit limbs (TLC     *)
(* integers are 32 bits wide).  All NaNs are one value.                    *)
(***************************************************************************)
EXTENDS Integers, Sequences, FiniteSets, TLC

(***************************************************************************)
(* Unbounded naturals: little-endian limb sequences, no high zero limb.    *)
(***************************************************************************)
LimbBits == 15
Radix == 32768

Max(x, y) == IF x >= y THEN x ELSE y
Min(x, y) == IF x <= y THEN x ELSE y

RECURSIVE Trim(_)
Trim(x) ==
  IF x = <<>> THEN <<>>
  ELSE IF x[Len(x)] = 0 THEN Trim(SubSeq(x, 1, Len(x) - 1)) ELSE x

RECURSIVE BigFromInt(_)
BigFromInt(n) ==
  IF n = 0 THEN <<>> ELSE <<n % Radix>> \o BigFromInt(n \div Radix)

RECURSIVE SmallBitLen(_)
SmallBitLen(n) == IF n = 0 THEN 0 ELSE 1 + SmallBitLen(n \div 2)

BitLen(x) ==
  IF x = <<>> THEN 0 ELSE (Len(x) - 1) * LimbBits + SmallBitLen(x[Len(x)])

Limb(x, i) == IF i <= Len(x) THEN x[i] ELSE 0

\* -1, 0, 1 as x <, =, > y, comparing limbs i down to 1 (equal lengths above i)
RECURSIVE CmpFrom(_, _, _)
CmpFrom(x, y, i) ==
  IF i = 0 THEN 0
  ELSE IF x[i] < y[i] THEN -1
  ELSE IF x[i] > y[i] THEN 1
  ELSE CmpFrom(x, y, i - 1)

BigCmp(x, y) ==
  IF Len(x) < Len(y) THEN -1
  ELSE IF Len(x) > Len(y) THEN 1
  ELSE CmpFrom(x, y, Len(x))

RECURSIVE AddFrom(_, _, _, _)
AddFrom(x, y, i, carry) ==
  IF i > Len(x) /\ i > Len(y)
  THEN (IF carry = 0 THEN <<>> ELSE <<carry>>)
  ELSE LET w == Limb(x, i) + Limb(y, i) + carry
       IN <<w % Radix>> \o AddFrom(x, y, i + 1, w \div Radix)

BigAdd(x, y) == AddFrom(x, y, 1, 0)

\* x - y for x >= y
RECURSIVE SubFrom(_, _, _, _)
SubFrom(x, y, i, borrow) ==
  IF i > Len(x) THEN <<>>
  ELSE LET w == x[i] - Limb(y, i) - borrow
       IN IF w < 0 THEN <<w + Radix>> \o SubFrom(x, y, i + 1, 1)
          ELSE <<w>> \o SubFrom(x, y, i + 1, 0)

BigSub(x, y) == Trim(SubFrom(x, y, 1, 0))

\* x * k for 0 <= k <= Radix
RECURSIVE MulSmallFrom(_, _, _, _)
MulSmallFrom(x, k, i, carry) ==
  IF i > Len(x) THEN (IF carry = 0 THEN <<>> ELSE <<carry>>)
  ELSE LET w == x[i] * k + carry
       IN <<w % Radix>> \o MulSmallFrom(x, k, i + 1, w \div Radix)

MulSmall(x, k) == IF k = 0 THEN <<>> ELSE MulSmallFrom(x, k, 1, 0)

Zeros(n) == [i \in 1..n |-> 0]

RECURSIVE MulFrom(_, _, _)
MulFrom(x, y, i) ==
  IF i > Len(y) THEN <<>>
  ELSE BigAdd(IF y[i] = 0 THEN <<>> ELSE Zeros(i - 1) \o MulSmall(x, y[i]),
              MulFrom(x, y, i + 1))

BigMul(x, y) == IF x = <<>> \/ y = <<>> THEN <<>> ELSE MulFrom(x, y, 1)

\* x * 2^n
ShiftLeft(x, n) ==
  IF x = <<>> THEN <<>>
  ELSE Zeros(n \div LimbBits) \o MulSmall(x, 2 ^ (n % LimbBits))

\* floor(x / 2^n)
ShiftRight(x, n) ==
  LET q == n \div LimbBits
      r == n % LimbBits
      lo == 2 ^ r
      hi == 2 ^ (LimbBits - r)
  IN IF q >= Len(x) THEN <<>>
     ELSE Trim([i \in 1..(Len(x) - q) |->
                  (x[q + i] \div lo) + (Limb(x, q + i + 1) % lo) * hi])

\* bit n of x, bit 0 the lowest
TestBit(x, n) ==
  n >= 0 /\ ((Limb(x, n \div LimbBits + 1) \div (2 ^ (n % LimbBits))) % 2 = 1)

\* x mod 2^n # 0
LowBitsNonZero(x, n) ==
  /\ n > 0
  /\ \/ \E i \in 1..Min(n \div LimbBits, Len(x)) : x[i] # 0
     \/ Limb(x, n \div LimbBits + 1) % (2 ^ (n % LimbBits)) # 0

BigOne == <<1>>

(***************************************************************************)
(* binary64.                                                               *)
(***************************************************************************)
Precision == 53
MinExp == 1074   \* the lowest exponent of the unit in the last place is -MinExp
MaxExp == 971    \* the highest: f64::MAX = (2^53 - 1) * 2^971

NaN == [k |-> "nan"]
Inf(s) == [k |-> "inf", s |-> s]
Fin(s, m, e) == [k |-> "fin", s |-> s, m |-> m, e |-> e]
Zero(s) == Fin(s, <<>>, -MinExp)

IsNaN(x) == x.k = "nan"
IsInf(x) == x.k = "inf"
IsFinite(x) == x.k = "fin"
IsZero(x) == x.k = "fin" /\ x.m = <<>>

\* The binary64 nearest to (-1)^s * (M + f) * 2^E, ties to even, where
\* 0 <= f < 1 and f # 0 iff sticky.  With sticky, M has more than 53 bits.
RoundPack(s, M, E, sticky) ==
  IF M = <<>> THEN Zero(s)
  ELSE
    LET L == BitLen(M)
        e == Max(E + L - Precision, -MinExp)
    IN IF e <= E THEN Fin(s, ShiftLeft(M, E - e), e)
       ELSE
         LET sh == e - E
             q == ShiftRight(M, sh)
             half == TestBit(M, sh - 1)
             rest == sticky \/ LowBitsNonZero(M, sh - 1)
             up == half /\ (rest \/ TestBit(q, 0))
             m == IF up THEN BigAdd(q, BigOne) ELSE q
             carry == BitLen(m) > Precision
             m2 == IF carry THEN ShiftRight(m, 1) ELSE m
             e2 == IF carry THEN e + 1 ELSE e
         IN IF e2 > MaxExp THEN Inf(s) ELSE Fin(s, m2, e2)

Xor(s1, s2) == (s1 + s2) % 2

fneg(x) ==
  IF IsNaN(x) THEN NaN
  ELSE IF IsInf(x) THEN Inf(1 - x.s)
  ELSE Fin(1 - x.s, x.m, x.e)

fabs(x) ==
  IF IsNaN(x) THEN NaN
  ELSE IF IsInf(x) THEN Inf(0)
  ELSE Fin(0, x.m, x.e)

\* An operand more than AbsorbGap binary places below the other lies under a
\* quarter of its unit in the last place and is absorbed by the rounding.
AbsorbGap == 64

fadd(x, y) ==
  IF IsNaN(x) \/ IsNaN(y) THEN NaN
  ELSE IF IsInf(x) THEN (IF IsInf(y) /\ y.s # x.s THEN NaN ELSE x)
  ELSE IF IsInf(y) THEN y
  ELSE IF x.e - y.e > AbsorbGap THEN x
  ELSE IF y.e - x.e > AbsorbGap THEN y
  ELSE
    LET e == Min(x.e, y.e)
        Mx == ShiftLeft(x.m, x.e - e)
        My == ShiftLeft(y.m, y.e - e)
        c == BigCmp(Mx, My)
    IN IF x.s = y.s THEN RoundPack(x.s, BigAdd(Mx, My), e, FALSE)
       ELSE IF c = 0 THEN Zero(0)
       ELSE IF c > 0 THEN RoundPack(x.s, BigSub(Mx, My), e, FALSE)
       ELSE RoundPack(y.s, BigSub(My, Mx), e, FALSE)

fsub(x, y) == fadd(x, fneg(y))

fmul(x, y) ==
  IF IsNaN(x) \/ IsNaN(y) THEN NaN
  ELSE IF IsInf(x) \/ IsInf(y)
       THEN (IF IsZero(x) \/ IsZero(y) THEN NaN ELSE Inf(Xor(x.s, y.s)))
  ELSE RoundPack(Xor(x.s, y.s), BigMul(x.m, y.m), x.e + y.e, FALSE)

\* One digit of long division in radix 2^15: the dividend is rem * Radix with
\* rem < d, and the top limb of d is at least Radix / 2, so the estimate from
\* the two top limbs exceeds the digit by at most 2.
DivStep(rem, d) ==
  LET r1 == IF rem = <<>> THEN <<>> ELSE <<0>> \o rem
      top == Limb(r1, Len(d) + 1) * Radix + Limb(r1, Len(d))
      q0 == Min(top \div d[Len(d)], Radix - 1)
      p0 == MulSmall(d, q0)
      over0 == BigCmp(p0, r1) > 0
      q1 == IF over0 THEN q0 - 1 ELSE q0
      p1 == IF over0 THEN BigSub(p0, d) ELSE p0
      over1 == BigCmp(p1, r1) > 0
      q2 == IF over1 THEN q1 - 1 ELSE q1
      p2 == IF over1 THEN BigSub(p1, d) ELSE p1
  IN [digit |-> q2, rem |-> BigSub(r1, p2)]

\* n digits of rem / d after the point, and what remains
PutDigit(rest, digit) == [q |-> rest.q \o <<digit>>, rem |-> rest.rem]

RECURSIVE DivDigits(_, _, _)
RECURSIVE DivNext(_, _, _)
DivDigits(rem, d, n) ==
  IF n = 0 THEN [q |-> <<>>, rem |-> rem] ELSE DivNext(DivStep(rem, d), d, n)

\* after step s, the n - 1 digits that follow
DivNext(s, d, n) == PutDigit(DivDigits(s.rem, d, n - 1), s.digit)

QuotientLimbs == 4   \* 60 quotient bits after the point
DivisorLimbs == 4    \* a 53-bit significand shifted to fill 60 bits

fdiv(x, y) ==
  IF IsNaN(x) \/ IsNaN(y) THEN NaN
  ELSE IF IsInf(x) THEN (IF IsInf(y) THEN NaN ELSE Inf(Xor(x.s, y.s)))
  ELSE IF IsInf(y) THEN Zero(Xor(x.s, y.s))
  ELSE IF IsZero(y) THEN (IF IsZero(x) THEN NaN ELSE Inf(Xor(x.s, y.s)))
  ELSE IF IsZero(x) THEN Zero(Xor(x.s, y.s))
  ELSE
    LET sx == DivisorLimbs * LimbBits - BitLen(x.m)
        sy == DivisorLimbs * LimbBits - BitLen(y.m)
        A == ShiftLeft(x.m, sx)
        B == ShiftLeft(y.m, sy)
        first == BigCmp(A, B) >= 0
        r == DivDigits(IF first THEN BigSub(A, B) ELSE A, B, QuotientLimbs)
        q == Trim(r.q \o <<IF first THEN 1 ELSE 0>>)
    IN RoundPack(Xor(x.s, y.s), q,
                 (x.e - sx) - (y.e - sy) - QuotientLimbs * LimbBits,
                 r.rem # <<>>)

\* |x| < |y| for finite x, y: in the canonical form the order of the
\* magnitudes is the order of the pairs (e, m)
MagLess(x, y) == x.e < y.e \/ (x.e = y.e /\ BigCmp(x.m, y.m) < 0)

\* x < y
flt(x, y) ==
  IF IsNaN(x) \/ IsNaN(y) THEN FALSE
  ELSE IF IsZero(x) /\ IsZero(y) THEN FALSE
  ELSE IF x = y THEN FALSE
  ELSE IF IsInf(x) THEN x.s = 1
  ELSE IF IsInf(y) THEN y.s = 0
  ELSE IF x.s # y.s THEN x.s = 1
  ELSE IF x.s = 0 THEN MagLess(x, y) ELSE MagLess(y, x)

\* an integer literal such as 4.0, and a decimal literal num/den such as
\* 4.00001 = 400001/100000 (the literal's nearest binary64)
FromInt(n) ==
  IF n < 0 THEN RoundPack(1, BigFromInt(-n), 0, FALSE)
  ELSE RoundPack(0, BigFromInt(n), 0, FALSE)

Lit(num, den) == fdiv(FromInt(num), FromInt(den))


\* 2^p
TwoTo(p) == Fin(0, ShiftLeft(BigOne, Precision - 1), p - (Precision - 1))

\* f64::MAX
F64Max == Fin(0, BigSub(ShiftLeft(BigOne, Precision), BigOne), MaxExp)

(***************************************************************************)
(* Tuple<N>.                                                               *)
(***************************************************************************)
\* the tolerance of eq: the literal 0.00001
EPSILON == Lit(1, 100000)

\* the outcome of indexing an array outside its length
OutOfBounds == [k |-> "panic"]

\* data[i] on a Rust array, i counted from 0
ArrayIndex(data, i) ==
  IF i >= 0 /\ i < Len(data) THEN data[i + 1] ELSE OutOfBounds

\* std::array::from_fn: f(0), ..., f(n - 1) in order
from_fn(n, f(_)) == [j \in 1..n |-> f(j - 1)]

\* from, had it stored the array back to front
from_reversed(array) ==
  [data |-> [j \in 1..Len(array) |-> array[Len(array) + 1 - j]]]

\* Tuple::from(array)
from(array) == [data |-> array]

\* Tuple::iter: the elements in index order
iter(self) == self.data

\* the operator token, had the division been a checked one that fails on a
\* zero divisor
Apply_checked(op, x, y) ==
  CASE op = "+" -> fadd(x, y)
    [] op = "-" -> fsub(x, y)
    [] op = "*" -> fmul(x, y)
    [] op = "/" -> IF IsZero(y) THEN OutOfBounds ELSE fdiv(x, y)

\* the operator token the macro is instantiated with
Apply(op, x, y) ==
  CASE op = "+" -> fadd(x, y)
    [] op = "-" -> fsub(x, y)
    [] op = "*" -> fmul(x, y)
    [] op = "/" -> fdiv(x, y)

Lift(op, x, y) ==
  IF x = OutOfBounds \/ y = OutOfBounds THEN OutOfBounds ELSE Apply(op, x, y)

\* the tuple arm, had the closure read other.data[0] at every index
implement_operations_first(op, n, self, other) ==
  from(from_fn(n, LAMBDA i :
         Lift(op, ArrayIndex(self.data, i), ArrayIndex(other.data, 0))))

\* implement_operations!, the arm for &Tuple<N> op &Tuple<N>
implement_operations(op, n, self, other) ==
  from(from_fn(n, LAMBDA i :
         Lift(op, ArrayIndex(self.data, i), ArrayIndex(other.data, i))))

\* implement_operations!, the arm for &Tuple<N> op f64
implement_operations_scalar(op, n, self, scalar) ==
  from(from_fn(n, LAMBDA i : Lift(op, ArrayIndex(self.data, i), scalar)))

\* Div<f64>, had the macro been instantiated with * for it
div_scalar_times(n, self, scalar) ==
  implement_operations_scalar("*", n, self, scalar)

add(n, self, other) == implement_operations("+", n, self, other)
sub(n, self, other) == implement_operations("-", n, self, other)
mul(n, self, other) == implement_operations("*", n, self, other)
div(n, self, other) == implement_operations("/", n, self, other)
mul_scalar(n, self, scalar) == implement_operations_scalar("*", n, self, scalar)
div_scalar(n, self, scalar) == implement_operations_scalar("/", n, self, scalar)

\* Neg::neg
neg(n, self) ==
  from(from_fn(n, LAMBDA i :
         IF ArrayIndex(self.data, i) = OutOfBounds THEN OutOfBounds
         ELSE fneg(ArrayIndex(self.data, i))))

\* Iterator::zip: pairs up to the shorter of the two
Zip(s1, s2) == [j \in 1..Min(Len(s1), Len(s2)) |-> <<s1[j], s2[j]>>]

\* Iterator::all
All(s, P(_)) == \A j \in 1..Len(s) : P(s[j])

\* eq, had the comparison been <= EPSILON
eq_inclusive(self, other) ==
  All(Zip(iter(self), iter(other)),
      LAMBDA p : flt(fabs(fsub(p[1], p[2])), EPSILON)
                 \/ fabs(fsub(p[1], p[2])) = EPSILON)

\* eq, had it compared the elements exactly
eq_exact(self, other) ==
  All(Zip(iter(self), iter(other)), LAMBDA p : p[1] = p[2])

\* eq, had the closure been (a + b).abs() < EPSILON
eq_sum(self, other) ==
  All(Zip(iter(self), iter(other)),
      LAMBDA p : flt(fabs(fadd(p[1], p[2])), EPSILON))

\* eq, had the closure been (a - b) < EPSILON, without abs
eq_signed(self, other) ==
  All(Zip(iter(self), iter(other)),
      LAMBDA p : flt(fsub(p[1], p[2]), EPSILON))

\* PartialEq::eq
eq(self, other) ==
  All(Zip(iter(self), iter(other)),
      LAMBDA p : flt(fabs(fsub(p[1], p[2])), EPSILON))

\* index, had it wrapped an index past the end around instead of asserting
index_wrapping(n, self, idx) ==
  IF idx < n \/ n = 0
  THEN [panic |-> idx >= n, val |-> ArrayIndex(self.data, idx),
        len |-> n, index |-> idx]
  ELSE [panic |-> FALSE, val |-> ArrayIndex(self.data, idx % n),
        len |-> n, index |-> idx]

\* Index::index: the assertion index < N, then the element
index(n, self, idx) ==
  IF idx < n
  THEN [panic |-> FALSE, val |-> ArrayIndex(self.data, idx), len |-> n, index |-> idx]
  ELSE [panic |-> TRUE, val |-> OutOfBounds, len |-> n, index |-> idx]

(***************************************************************************)
(* The inputs: dimensions, arrays and scalars.                             *)
(***************************************************************************)
MaxN == 2          \* generated arrays have dimension 0..MaxN
IndexPast == 1     \* indices run from 0 to N + IndexPast

One == FromInt(1)

\* the values an element of a generated array takes
Scalars ==
  { Zero(0), One, Lit(6, 1000000), EPSILON, Lit(1, 10),
    fmul(Lit(1, 10), TwoTo(40)), F64Max, Inf(0), NaN }

\* the scalars of mul_scalar and div_scalar
Factors == { Zero(0), FromInt(3), Lit(1, 2), TwoTo(-MinExp), Inf(0) }

\* the arrays of the tests
TestArrays ==
  { <<One, FromInt(2), FromInt(3), FromInt(4)>>,
    <<FromInt(2), FromInt(3), FromInt(4), FromInt(5)>>,
    <<One, FromInt(2), FromInt(3), Lit(400001, 100000)>>,
    <<FromInt(2), FromInt(4), FromInt(6), FromInt(8)>>,
    <<FromInt(2), FromInt(2), FromInt(2), FromInt(2)>> }

Dims == (0..MaxN) \cup { Len(arr) : arr \in TestArrays }

\* generated arrays: One everywhere but at one position
Generated(n) ==
  IF n = 0 THEN { <<>> }
  ELSE { [j \in 1..n |-> IF j = p THEN v ELSE One] :
           p \in 1..n, v \in Scalars }

Arrays ==
  [n \in Dims |->
     (IF n <= MaxN THEN Generated(n) ELSE {})
       \cup { arr \in TestArrays : Len(arr) = n }]

(***************************************************************************)
(* State: a caller holding tuples a and b made from arrays, r the result   *)
(* of an operation on them and s the result of an operation on r; ret is   *)
(* what the last eq, index or iter returned, panic the message of a failed *)
(* assertion (the thread unwinds: nothing runs after it).                  *)
(***************************************************************************)
VARIABLES N, tuples, given, how, ret, panic

vars == <<N, tuples, given, how, ret, panic>>

Slots == {"a", "b", "r", "s"}
None == [k |-> "none"]
NoRet == [op |-> "none"]
NoPanic == <<>>
NoOp == [op |-> "none"]

IsSet(x) == tuples[x] # None
NoValue == OutOfBounds
IndexMessage == "Index out of bounds: the len is {} but the index is {}"
Running == panic = NoPanic /\ ret = NoRet

Init ==
  /\ N \in Dims
  /\ tuples = [x \in Slots |-> None]
  /\ given = [x \in {"a", "b"} |-> <<>>]
  /\ how = [x \in {"r", "s"} |-> NoOp]
  /\ ret = NoRet
  /\ panic = NoPanic

\* let x = Tuple::from(array)
From(x, array) ==
  /\ Running
  /\ ~IsSet(x)
  /\ tuples' = [tuples EXCEPT ![x] = from(array)]
  /\ given' = [given EXCEPT ![x] = array]
  /\ UNCHANGED <<N, how, ret, panic>>

\* the binding, had the operator taken self by &mut and written res into it
Bind_in_place(z, res, desc) ==
  /\ tuples' = [tuples EXCEPT ![z] = res, ![desc.x] = res]
  /\ how' = [how EXCEPT ![z] = desc]
  /\ UNCHANGED <<N, given, ret, panic>>

\* let z = <res>, where res came from operation desc; an array access out of
\* bounds while computing res panics instead
Bind(z, res, desc) ==
  IF \E j \in 1..Len(res.data) : res.data[j] = OutOfBounds
  THEN /\ panic' = <<"index out of bounds", N>>
       /\ UNCHANGED <<N, tuples, given, how, ret>>
  ELSE /\ tuples' = [tuples EXCEPT ![z] = res]
       /\ how' = [how EXCEPT ![z] = desc]
       /\ UNCHANGED <<N, given, ret, panic>>

Desc(op, x, y, k) == [op |-> op, x |-> x, y |-> y, k |-> k]

CanBinary(x, y, z) == Running /\ IsSet(x) /\ IsSet(y) /\ ~IsSet(z)
CanUnary(x, z) == Running /\ IsSet(x) /\ ~IsSet(z)

\* let z = &x + &y, and so on
Add(x, y, z) ==
  CanBinary(x, y, z) /\ Bind(z, add(N, tuples[x], tuples[y]), Desc("add", x, y, One))
Sub(x, y, z) ==
  CanBinary(x, y, z) /\ Bind(z, sub(N, tuples[x], tuples[y]), Desc("sub", x, y, One))
Mul(x, y, z) ==
  CanBinary(x, y, z) /\ Bind(z, mul(N, tuples[x], tuples[y]), Desc("mul", x, y, One))
Div(x, y, z) ==
  CanBinary(x, y, z) /\ Bind(z, div(N, tuples[x], tuples[y]), Desc("div", x, y, One))

\* let z = &x * k, let z = &x / k
MulScalar(x, k, z) ==
  CanUnary(x, z) /\ Bind(z, mul_scalar(N, tuples[x], k), Desc("mul_scalar", x, x, k))
DivScalar(x, k, z) ==
  CanUnary(x, z) /\ Bind(z, div_scalar(N, tuples[x], k), Desc("div_scalar", x, x, k))

\* let z = -&x
Neg(x, z) ==
  CanUnary(x, z) /\ Bind(z, neg(N, tuples[x]), Desc("neg", x, x, One))

\* x == y
Eq(x, y) ==
  /\ Running /\ IsSet(x) /\ IsSet(y)
  /\ ret' = [op |-> "eq", x |-> x, y |-> y, i |-> 0, val |-> eq(tuples[x], tuples[y])]
  /\ UNCHANGED <<N, tuples, given, how, panic>>

\* x[i]: the element, or the panic of the failed assertion with its message
Index(x, i) ==
  /\ Running /\ IsSet(x)
  /\ LET res == index(N, tuples[x], i)
     IN /\ ret' = [op |-> "index", x |-> x, y |-> x, i |-> i,
                   val |-> IF res.panic THEN NoValue ELSE res.val]
        /\ panic' = IF res.panic THEN <<IndexMessage, res.len, res.index>>
                    ELSE panic
  /\ UNCHANGED <<N, tuples, given, how>>

\* x.iter() consumed to its end
Iter(x) ==
  /\ Running /\ IsSet(x)
  /\ ret' = [op |-> "iter", x |-> x, y |-> x, i |-> 0, val |-> iter(tuples[x])]
  /\ UNCHANGED <<N, tuples, given, how, panic>>

\* A caller that makes a and b, applies one operation to them and looks at
\* the outcome.
Inputs == IsSet("a") /\ IsSet("b")

Next ==
  \/ ~IsSet("a") /\ \E arr \in Arrays[N] : From("a", arr)
  \/ IsSet("a") /\ ~IsSet("b") /\ \E arr \in Arrays[N] : From("b", arr)
  \/ Inputs /\ Add("a", "b", "r")
  \/ Inputs /\ Sub("a", "b", "r")
  \/ Inputs /\ Mul("a", "b", "r")
  \/ Inputs /\ Div("a", "b", "r")
  \/ Inputs /\ \E k \in Factors : MulScalar("a", k, "r")
  \/ Inputs /\ \E k \in Factors : DivScalar("a", k, "r")
  \/ Inputs /\ Neg("a", "r")
  \/ Inputs /\ ~IsSet("r") /\
       \E p \in {<<"a", "b">>, <<"b", "a">>, <<"a", "a">>} : Eq(p[1], p[2])
  \/ IsSet("r") /\
       \E p \in {<<"r", "r">>, <<"r", "a">>, <<"r", "b">>} : Eq(p[1], p[2])
  \/ Inputs /\ \E i \in 0..(N + IndexPast) :
       Index(IF IsSet("r") THEN "r" ELSE "a", i)
  \/ Inputs /\ Iter(IF IsSet("r") THEN "r" ELSE "a")

Spec == Init /\ [][Next]_vars

\* A caller that scales a by one scalar, divides the product by another and
\* compares what comes back with a.
NextChain ==
  \/ ~IsSet("a") /\ \E arr \in Arrays[N] : From("a", arr)
  \/ \E k \in Factors : MulScalar("a", k, "r")
  \/ \E k \in Factors : DivScalar("r", k, "s")
  \/ IsSet("s") /\ Eq("s", "a")

SpecChain == Init /\ [][NextChain]_vars

(***************************************************************************)
(* The properties.                                                         *)
(***************************************************************************)
Data(x) == tuples[x].data
Made == {"a", "b"}

\* |x - y| < EPSILON in binary64
Within(x, y) == flt(fabs(fsub(x, y)), EPSILON)

InfOrNaN(x) == IsNaN(x) \/ IsInf(x)
IsNormal(x) == IsFinite(x) /\ BitLen(x.m) = Precision
AllFinite(x) == \A j \in 1..N : IsFinite(Data(x)[j])

\* C1: index(t, i) with i >= N fails with the assertion's message, which names
\* the length N and the index i, and returns no value; with i < N it returns
\* the element and does not fail.
C1_IndexFailsFast ==
  ret.op = "index" =>
    IF ret.i >= N
    THEN panic = <<IndexMessage, N, ret.i>> /\ ret.val = NoValue
    ELSE panic = NoPanic /\ ret.val = Data(ret.x)[ret.i + 1]
                 /\ ret.val # NoValue

C1_Witness ==
  ret.op = "index" /\ N >= 1 /\ ret.i >= N /\ panic = <<IndexMessage, N, ret.i>>

\* C2: from(array)[i] is array[i] for every valid index i: construction keeps
\* every value at its position.
C2_FromKeepsValues ==
  (ret.op = "index" /\ ret.x \in Made /\ ret.i < N) =>
    ret.val = given[ret.x][ret.i + 1]

C2_Witness ==
  /\ ret.op = "index" /\ ret.x = "a" /\ N >= 2 /\ ret.i = 1
  /\ given["a"][1] # given["a"][2]
  /\ ret.val = given["a"][2]

\* C3: eq(a, b) is true exactly when |a[i] - b[i]| < EPSILON at every index i;
\* one index at or above EPSILON makes it false, and it is true for N = 0.
C3_EqIffAllWithin ==
  ret.op = "eq" =>
    (ret.val <=> \A j \in 1..N : Within(Data(ret.x)[j], Data(ret.y)[j]))

C3_Witness ==
  /\ ret.op = "eq" /\ N >= 2 /\ ~ret.val
  /\ Cardinality({j \in 1..N : ~Within(Data(ret.x)[j], Data(ret.y)[j])}) = 1
  /\ \E j \in 1..N : fabs(fsub(Data(ret.x)[j], Data(ret.y)[j])) = EPSILON

\* C4: Tuple([1,2,3,4.0]) == Tuple([1,2,3,4.00001]) is true.
C4_SmallDifferenceWithinEpsilon ==
  ( /\ ret.op = "eq" /\ ret.x \in Made /\ ret.y \in Made
    /\ given[ret.x] = <<One, FromInt(2), FromInt(3), FromInt(4)>>
    /\ given[ret.y] = <<One, FromInt(2), FromInt(3), Lit(400001, 100000)>> )
  => ret.val

C4_Witness ==
  /\ ret.op = "eq" /\ ret.x = "a" /\ ret.y = "b" /\ ret.val
  /\ given["a"] = <<One, FromInt(2), FromInt(3), FromInt(4)>>
  /\ given["b"] = <<One, FromInt(2), FromInt(3), Lit(400001, 100000)>>

\* what operation d gives at index j of its operands
ElementOf(d, j) ==
  CASE d.op = "add" -> fadd(Data(d.x)[j], Data(d.y)[j])
    [] d.op = "sub" -> fsub(Data(d.x)[j], Data(d.y)[j])
    [] d.op = "mul" -> fmul(Data(d.x)[j], Data(d.y)[j])
    [] d.op = "div" -> fdiv(Data(d.x)[j], Data(d.y)[j])
    [] d.op = "mul_scalar" -> fmul(Data(d.x)[j], d.k)
    [] d.op = "div_scalar" -> fdiv(Data(d.x)[j], d.k)
    [] d.op = "neg" -> fneg(Data(d.x)[j])

\* C5: every arithmetic operator returns N elements, the element at index i
\* computed from the operands' elements at index i alone: a[i] op b[i],
\* a[i] op k, -a[i].
C5_Elementwise ==
  \A z \in {"r", "s"} :
    IsSet(z) =>
      /\ Len(Data(z)) = N
      /\ \A j \in 1..N : Data(z)[j] = ElementOf(how[z], j)

C5_Witness ==
  /\ IsSet("r") /\ how["r"].op = "mul" /\ N >= 2
  /\ Data("b")[1] # Data("b")[2]
  /\ Data("r")[1] # Data("r")[2]

\* the scalar of a scaling by k that is then undone by a division by k
RoundTrip ==
  /\ IsSet("s")
  /\ how["r"].op = "mul_scalar" /\ how["r"].x = "a"
  /\ how["s"].op = "div_scalar" /\ how["s"].x = "r"
  /\ how["r"].k = how["s"].k
  /\ ~IsZero(how["r"].k)
  /\ ret.op = "eq" /\ ret.x = "s" /\ ret.y = "a"

\* C6 as stated: for every tuple a and every nonzero k,
\* div_scalar(mul_scalar(a, k), k) == a.
C6_RoundTripAlways == RoundTrip => ret.val

Billion == FromInt(1000000000)

\* the products a[i] * k neither overflow nor leave the normal range, and
\* no |a[i]| exceeds 1e9
InRange ==
  /\ IsFinite(how["r"].k)
  /\ \A j \in 1..N :
       /\ IsFinite(Data("a")[j])
       /\ ~flt(Billion, fabs(Data("a")[j]))
       /\ IsZero(Data("a")[j]) \/ IsNormal(Data("r")[j])

\* C6, amended: for every tuple a of finite elements of magnitude at most 1e9
\* and every finite nonzero k for which each product a[i] * k is a normal
\* number (or a[i] is zero), div_scalar(mul_scalar(a, k), k) == a.
C6_RoundTripInRange == (RoundTrip /\ InRange) => ret.val

C6_Witness ==
  RoundTrip /\ InRange /\ N >= 1 /\ Data("s") # Data("a") /\ ret.val

\* C7 as stated: a == a for every tuple a, results of a division by zero
\* included.
C7_ReflexiveAlways == (ret.op = "eq" /\ ret.x = ret.y) => ret.val

\* C7, amended: a == a for every tuple a whose elements are all finite.
C7_ReflexiveOnFinite ==
  (ret.op = "eq" /\ ret.x = ret.y /\ AllFinite(ret.x)) => ret.val

C7_Witness ==
  /\ ret.op = "eq" /\ ret.x = "r" /\ ret.y = "r" /\ N >= 1
  /\ how["r"].op = "div" /\ AllFinite("r") /\ ret.val

\* C8: div and div_scalar fail on no operand: where the divisor is zero the
\* result holds an infinity or a NaN, and the only failure of any operation
\* is an index at or beyond N.
C8_DivisionNeverFails ==
  /\ panic # NoPanic => (ret.op = "index" /\ ret.i >= N)
  /\ \A z \in {"r", "s"} :
       IsSet(z) =>
         /\ how[z].op = "div" =>
              \A j \in 1..N :
                IsZero(Data(how[z].y)[j]) => InfOrNaN(Data(z)[j])
         /\ (how[z].op = "div_scalar" /\ IsZero(how[z].k)) =>
              \A j \in 1..N : InfOrNaN(Data(z)[j])

C8_Witness ==
  /\ IsSet("r") /\ how["r"].op = "div" /\ N >= 2
  /\ \E j \in 1..N : IsZero(Data("b")[j]) /\ IsInf(Data("r")[j])
  /\ \E j \in 1..N : ~IsZero(Data("b")[j]) /\ IsFinite(Data("r")[j])

\* C9: no operation changes an operand: every tuple made from an array holds
\* that array's N values after whatever has run since.
C9_OperandsUnchanged ==
  \A x \in Made : IsSet(x) => (Data(x) = given[x] /\ Len(Data(x)) = N)

C9_Witness ==
  /\ IsSet("r") /\ N >= 1 /\ Data("r") # Data("a") /\ Data("r") # Data("b")
  /\ ret.op = "iter" /\ ret.x = "r"

\* C10: eq is symmetric, eq(a, b) = eq(b, a), and not transitive.
C10_EqSymmetric ==
  ret.op = "eq" => (ret.val <=> eq(tuples[ret.y], tuples[ret.x]))

\* r == a and a == b and yet r # b
C10_Witness ==
  /\ IsSet("r") /\ N >= 1
  /\ ret.op = "eq" /\ ret.x = "r" /\ ret.y = "b" /\ ~ret.val
  /\ eq(tuples["r"], tuples["a"])
  /\ eq(tuples["a"], tuples["b"])

====
